---- MODULE Spec2Model ----
(***************************************************************************)
(* A model of playlistBuilder.py: the command-line entry point, the        *)
(* PlaylistBuilder pipeline (run) with its four remote calls, and the two  *)
(* numeric helpers genAverageModel and getBestSeeds.                       *)
(*                                                                         *)
(* Numbers.  Audio features are floats in the program.  Here a number is   *)
(* an integer counting units of 1/Scale, with Scale the least common       *)
(* multiple of all list lengths the model uses, and every feature value    *)
(* the remote service sends is a whole multiple of Scale.  Sums and means  *)
(* over at most that many tracks are then exact, so the model describes    *)
(* the arithmetic over the reals; binary floating-point rounding is not    *)
(* represented.  Distances are compared through their squares, which       *)
(* order the same way as the Euclidean norms numpy computes.               *)
(*                                                                         *)
(* Python's None is the empty tuple and a present value x is <<x>>, so     *)
(* that optional fields stay comparable.                                   *)
(***************************************************************************)
EXTENDS Integers, Sequences, FiniteSets, TLC

\* ------------------------------------------------------------------ bounds
MaxTracks == 2        \* input identities of one pipeline run
NumIds == 2           \* catalog ids the remote service can answer with
MaxRecs == 2          \* tracks in one recommendations response
NegLimits == 1        \* caller-supplied limits go down to -NegLimits
MaxLimit == 1         \* largest caller-supplied limit
MaxFnTracks == 2      \* list length for the helpers called on their own
MaxFeat == 1          \* feature values are 0..MaxFeat (times Scale)
MaxSeedLimit == 2     \* seed limits for getBestSeeds called on its own

\* ------------------------------------------------------- program constants
DefaultSeedLimit == 5

\* ----------------------------------------------------------------- helpers
None == <<>>
Some(x) == <<x>>
Val(o) == o[1]

Min(a, b) == IF a <= b THEN a ELSE b
Max(a, b) == IF a >= b THEN a ELSE b

RECURSIVE GCD(_, _)
GCD(a, b) == IF b = 0 THEN a ELSE GCD(b, a % b)

RECURSIVE LCMUpTo(_)
LCMUpTo(n) == IF n <= 1 THEN 1 ELSE (LCMUpTo(n - 1) * n) \div GCD(LCMUpTo(n - 1), n)

Scale == LCMUpTo(Max(MaxTracks, MaxFnTracks))

Ids == 1..NumIds

Limits == (0 - NegLimits)..MaxLimit

Range(s) == {s[i] : i \in 1..Len(s)}

SeqsUpTo(S, n) == UNION {[1..k -> S] : k \in 0..n}

\* s[:k] of Python, for any integer k
PySlicePrefix(s, k) ==
    IF k >= 0 THEN SubSeq(s, 1, Min(k, Len(s)))
    ELSE SubSeq(s, 1, Max(0, Len(s) + k))

\* -------------------------------------------------------------- data model
\* The eight dimensions, in the order of AudioModel.__init__'s parameters.
DimOrder ==
    <<"acousticness", "danceability", "energy", "instrumentalness",
      "liveness", "speechiness", "valence", "loudness">>

Dims == Range(DimOrder)

\* AudioModel(*args): positional arguments bound to the parameters in order,
\* parameters without an argument default to None.
AudioModel(args) ==
    [d \in Dims |->
        LET i == CHOOSE j \in 1..Len(DimOrder) : DimOrder[j] = d
        IN IF i <= Len(args) THEN args[i] ELSE None]

getNumpyVectorSwapped(m) ==
    <<m.acousticness, m.energy, m.danceability, m.instrumentalness,
      m.liveness, m.speechiness, m.valence, m.loudness>>

getNumpyVector(m) ==
    <<m.acousticness, m.danceability, m.energy, m.instrumentalness,
      m.liveness, m.speechiness, m.valence, m.loudness>>

\* AudioFeatures(**feature): keyword arguments; the eight dimensions go to
\* AudioModel positionally, the metadata is carried but never read.
AudioFeatures(feature) ==
    [model |-> AudioModel(<<feature.acousticness, feature.danceability,
                            feature.energy, feature.instrumentalness,
                            feature.liveness, feature.speechiness,
                            feature.valence, feature.loudness>>)]

\* Track(track_info=TrackInfo(id=...)), audio_features None until enriched.
Track(id) == [id |-> id, audio_features |-> None]

\* A feature record of the audio-features response: a JSON object with the
\* eight dimensions, each a whole multiple of Scale.
FeatureRecords(maxNonZero) ==
    {f \in [Dims -> {Some(Scale * x) : x \in 0..MaxFeat}] :
        Cardinality({d \in Dims : f[d] # Some(0)}) <= maxNonZero}

\* -------------------------------------------------------------- averaging
RECURSIVE ColumnSum(_, _)
ColumnSum(rows, j) ==
    IF rows = <<>> THEN 0 ELSE Val(Head(rows)[j]) + ColumnSum(Tail(rows), j)

\* np.matrix(rows).mean(axis=0).tolist()[0]; np.matrix([]) has shape (1, 0)
\* and its column mean is the empty list.
ColumnMeans(rows) ==
    IF rows = <<>> THEN <<>>
    ELSE [j \in 1..Len(rows[1]) |-> Some(ColumnSum(rows, j) \div Len(rows))]

FeatureRows(tracks) ==
    [i \in 1..Len(tracks) |-> getNumpyVector(Val(tracks[i].audio_features).model)]

genAverageModel(tracks) == AudioModel(ColumnMeans(FeatureRows(tracks)))

\* genAverageModel raises (None has no attribute model) when a track carries
\* no features.
AllEnriched(tracks) == \A i \in 1..Len(tracks) : tracks[i].audio_features # None

\* --------------------------------------------------------- seed selection
RECURSIVE SumSq(_, _)
SumSq(a, b) ==
    IF a = <<>> THEN 0
    ELSE (Val(Head(a)) - Val(Head(b))) * (Val(Head(a)) - Val(Head(b)))
         + SumSq(Tail(a), Tail(b))

\* The square of np.linalg.norm(row - target).
Dist2(track, model) ==
    SumSq(getNumpyVector(Val(track.audio_features).model), getNumpyVector(model))

Permutations1(n) == {p \in [1..n -> 1..n] : \A i, j \in 1..n : i # j => p[i] # p[j]}

\* dist.argsort() with numpy's default kind ("quicksort", which numpy
\* documents as not stable): any permutation that puts the distances in
\* non-decreasing order.
ArgSorts(tracks, model) ==
    {p \in Permutations1(Len(tracks)) :
        \A i \in 1..(Len(tracks) - 1) :
            Dist2(tracks[p[i]], model) <= Dist2(tracks[p[i + 1]], model)}

\* The one stable permutation among them.
StableArgSort(tracks, model) ==
    CHOOSE p \in ArgSorts(tracks, model) :
        \A i \in 1..(Len(tracks) - 1) :
            Dist2(tracks[p[i]], model) = Dist2(tracks[p[i + 1]], model)
                => p[i] < p[i + 1]

\* The index lists getBestSeeds can return: argsort()[:limit].
getBestSeedsIdx(tracks, model, limit) ==
    {PySlicePrefix(p, limit) : p \in ArgSorts(tracks, model)}

\* ------------------------------------------------------------------- state
VARIABLES
    payload,            \* shape of the command-line JSON payload
    dataTracks,         \* number of track objects in data["tracks"]
    dataLimit,          \* data["limit"]
    pc,                 \* the statement the process is at
    raisedAt,           \* where an exception ended the run, or "none"
    fault,              \* history: stage of the first failed or malformed
                        \* response, or "none"
    calls,              \* the remote calls issued so far, in order
    lastCall,           \* the latest remote call: from_cache, and whether
                        \* time.sleep(SLEEP_TIME) followed it
    tracks,             \* run's local list `tracks`
    model,              \* run's local `model` (None until computed)
    seeds,              \* run's local `seeds`
    response,           \* ids of the tracks of the recommendations response
    recommendedSongs,   \* run's local `recommendedSongs` (catalog ids)
    printed,            \* the playlist written to standard output, or None
    fnTracks,           \* a helper called on its own: the track list given
    fnModel,            \* the target given, or the average computed
    fnLimit,            \* getBestSeeds' limit
    fnSeeds,            \* indices of the tracks getBestSeeds returned
    fnPc                \* whether the helper has been applied

pipeVars ==
    <<payload, dataTracks, dataLimit, pc, raisedAt, fault, calls, lastCall,
      tracks, model, seeds, response, recommendedSongs, printed>>

fnVars == <<fnTracks, fnModel, fnLimit, fnSeeds, fnPc>>

vars == <<pipeVars, fnVars>>

Payloads == {"ok", "notJson", "noTracks", "badField", "noLimit"}

NoCall == [op |-> "none", from_cache |-> FALSE, slept |-> FALSE]

\* The two feature records the remote service answers with in pipeline runs.
SampleRecords ==
    {[d \in Dims |-> Some(0)],
     [d \in Dims |-> IF d = "energy" THEN Some(Scale) ELSE Some(0)]}

FnIdle ==
    /\ fnTracks = <<>>
    /\ fnModel = None
    /\ fnLimit = 0
    /\ fnSeeds = <<>>
    /\ fnPc = "idle"

PipeIdle ==
    /\ payload = "ok"
    /\ dataTracks = 0
    /\ dataLimit = 0
    /\ pc = "idle"
    /\ raisedAt = "none"
    /\ fault = "none"
    /\ calls = <<>>
    /\ lastCall = NoCall
    /\ tracks = <<>>
    /\ model = None
    /\ seeds = <<>>
    /\ response = <<>>
    /\ recommendedSongs = <<>>
    /\ printed = None

\* The process is started with some payload on its command line.
Init ==
    /\ payload \in Payloads
    /\ dataTracks \in (IF payload \in {"ok", "noLimit"} THEN 0..MaxTracks
                       ELSE IF payload = "badField" THEN 1..MaxTracks ELSE {0})
    /\ dataLimit \in (IF payload = "ok" THEN Limits ELSE {0})
    /\ pc = "main"
    /\ raisedAt = "none"
    /\ fault = "none"
    /\ calls = <<>>
    /\ lastCall = NoCall
    /\ tracks = <<>>
    /\ model = None
    /\ seeds = <<>>
    /\ response = <<>>
    /\ recommendedSongs = <<>>
    /\ printed = None
    /\ FnIdle

\* An uncaught exception: the traceback ends the process, nothing is printed.
Raise(stage) ==
    /\ pc' = "aborted"
    /\ raisedAt' = stage

\* response.from_cache is read and time.sleep(SLEEP_TIME) runs when it is
\* false.
CachedCall(op, arg, fromCache) ==
    /\ calls' = Append(calls, [op |-> op, arg |-> arg])
    /\ lastCall' = [op |-> op, from_cache |-> fromCache, slept |-> ~fromCache]

\* requests.post outside the cached session, and no sleep after it.
PlainCall(op) ==
    /\ calls' = Append(calls, [op |-> op, arg |-> 0])
    /\ lastCall' = [op |-> op, from_cache |-> FALSE, slept |-> FALSE]

\* json.loads(data) and the Track list.
Main ==
    /\ pc = "main"
    /\ IF payload \in {"notJson", "noTracks", "badField"}
       THEN Raise("main")
       ELSE pc' = "auth" /\ UNCHANGED raisedAt
    /\ UNCHANGED <<payload, dataTracks, dataLimit, fault, calls, lastCall,
                   tracks, model, seeds, response, recommendedSongs, printed>>
    /\ UNCHANGED fnVars

\* PlaylistBuilder(...): the constructor requests the token.
GetAuthtoken ==
    /\ pc = "auth"
    /\ PlainCall("token")
    /\ \E usable \in BOOLEAN :
          IF usable
          THEN pc' = "callRun" /\ UNCHANGED <<raisedAt, fault>>
          ELSE Raise("auth") /\ fault' = "auth"
    /\ UNCHANGED <<payload, dataTracks, dataLimit, tracks, model, seeds,
                   response, recommendedSongs, printed>>
    /\ UNCHANGED fnVars

\* playlistBuilder.run(data["limit"]): the argument is evaluated here.
CallRun ==
    /\ pc = "callRun"
    /\ IF payload = "noLimit"
       THEN Raise("callRun")
       ELSE pc' = "resolve" /\ UNCHANGED raisedAt
    /\ UNCHANGED <<payload, dataTracks, dataLimit, fault, calls, lastCall,
                   tracks, model, seeds, response, recommendedSongs, printed>>
    /\ UNCHANGED fnVars

SearchAnswers ==
    {[kind |-> "error", id |-> 0], [kind |-> "empty", id |-> 0]}
    \cup {[kind |-> "item", id |-> id] : id \in Ids}

OnSearchErrorRetry ==
    /\ fault' = "resolve"
    /\ UNCHANGED <<pc, raisedAt, tracks>>

\* response.json()["tracks"]["items"] raises; nothing catches it.
OnSearchError ==
    /\ Raise("resolve")
    /\ fault' = "resolve"
    /\ UNCHANGED tracks

\* One searchTrack call of the list comprehension; identity number
\* Len(tracks) + 1 is the one searched.  The response either
\* lacks what the code indexes (error), holds no item, or holds a track.
SearchTrack ==
    /\ pc = "resolve"
    /\ Len(tracks) < dataTracks
    /\ \E fromCache \in BOOLEAN : CachedCall("search", Len(tracks) + 1, fromCache)
    /\ \E answer \in SearchAnswers :
          IF answer.kind = "error"
          THEN OnSearchError
          ELSE /\ tracks' = Append(tracks, IF answer.kind = "empty" THEN None
                                           ELSE Some(Track(answer.id)))
               /\ UNCHANGED <<pc, raisedAt, fault>>
    /\ UNCHANGED <<payload, dataTracks, dataLimit, model, seeds,
                   response, recommendedSongs, printed>>
    /\ UNCHANGED fnVars

\* tracks = [track for track in tracks if track]
DropUnresolved ==
    /\ pc = "resolve"
    /\ Len(tracks) = dataTracks
    /\ tracks' = LET kept == SelectSeq(tracks, LAMBDA t : t # None)
                 IN [i \in 1..Len(kept) |-> Val(kept[i])]
    /\ pc' = "enrich"
    /\ UNCHANGED <<payload, dataTracks, dataLimit, raisedAt, fault, calls,
                   lastCall, model, seeds, response, recommendedSongs, printed>>
    /\ UNCHANGED fnVars

\* The audio-features responses: no "audio_features" key (error), or a list
\* of records, each a record or null, of any length up to one more than asked.
FeatureResponses(n) ==
    {[ok |-> FALSE, audio_features |-> <<>>]}
    \cup {[ok |-> TRUE, audio_features |-> fs] :
            fs \in SeqsUpTo({None} \cup {Some(r) : r \in SampleRecords}, n + 1)}

\* for track, feature in zip(tracks, features): track.audio_features = ...
ZipFeatures(ts, fs) ==
    [i \in 1..Len(ts) |->
        IF i <= Len(fs)
        THEN [ts[i] EXCEPT !.audio_features = Some(AudioFeatures(Val(fs[i])))]
        ELSE ts[i]]

Malformed(ts, body) ==
    \/ ~body.ok
    \/ Len(body.audio_features) # Len(ts)
    \/ \E i \in 1..Len(body.audio_features) : body.audio_features[i] = None

GetAudioFeatures ==
    /\ pc = "enrich"
    /\ \E fromCache \in BOOLEAN : CachedCall("features", 0, fromCache)
    /\ \E body \in FeatureResponses(Len(tracks)) :
          /\ fault' = IF Malformed(tracks, body) THEN "enrich" ELSE fault
          /\ IF \/ ~body.ok
                \/ \E i \in 1..Min(Len(tracks), Len(body.audio_features)) :
                      body.audio_features[i] = None
             THEN Raise("enrich") /\ UNCHANGED tracks
             ELSE /\ tracks' = ZipFeatures(tracks, body.audio_features)
                  /\ pc' = "model"
                  /\ UNCHANGED raisedAt
    /\ UNCHANGED <<payload, dataTracks, dataLimit, model, seeds,
                   response, recommendedSongs, printed>>
    /\ UNCHANGED fnVars

GenAverageModel ==
    /\ pc = "model"
    /\ IF AllEnriched(tracks)
       THEN /\ model' = Some(genAverageModel(tracks))
            /\ pc' = "seed"
            /\ UNCHANGED raisedAt
       ELSE Raise("model") /\ UNCHANGED model
    /\ UNCHANGED <<payload, dataTracks, dataLimit, fault, calls, lastCall,
                   tracks, seeds, response, recommendedSongs, printed>>
    /\ UNCHANGED fnVars

\* With no track the (1, 0) matrix cannot be broadcast against the target.
GetBestSeeds ==
    /\ pc = "seed"
    /\ IF tracks = <<>>
       THEN Raise("seed") /\ UNCHANGED seeds
       ELSE /\ \E idx \in getBestSeedsIdx(tracks, Val(model), DefaultSeedLimit) :
                  seeds' = [i \in 1..Len(idx) |-> tracks[idx[i]]]
            /\ pc' = "recommend"
            /\ UNCHANGED raisedAt
    /\ UNCHANGED <<payload, dataTracks, dataLimit, fault, calls, lastCall,
                   tracks, model, response, recommendedSongs, printed>>
    /\ UNCHANGED fnVars

\* The recommendations response: an error body, or any list of tracks,
\* whatever the limit asked for.
GetModelRecommendations ==
    /\ pc = "recommend"
    /\ \E fromCache \in BOOLEAN : CachedCall("recommendations", 0, fromCache)
    /\ \E answer \in {None} \cup {Some(r) : r \in SeqsUpTo(Ids, MaxRecs)} :
          IF answer = None
          THEN /\ Raise("recommend")
               /\ fault' = "recommend"
               /\ UNCHANGED <<response, recommendedSongs>>
          ELSE /\ response' = Val(answer)
               /\ recommendedSongs' = Val(answer)
               /\ pc' = "dedup"
               /\ UNCHANGED <<raisedAt, fault>>
    /\ UNCHANGED <<payload, dataTracks, dataLimit, tracks, model, seeds,
                   printed>>
    /\ UNCHANGED fnVars

InputIds(ts) == {ts[i].id : i \in 1..Len(ts)}

DeduplicateKeepAll(recs, ts) == recs

Deduplicate(recs, ts) == SelectSeq(recs, LAMBDA id : id \notin InputIds(ts))

RemoveDuplicates ==
    /\ pc = "dedup"
    /\ recommendedSongs' = Deduplicate(recommendedSongs, tracks)
    /\ pc' = "cap"
    /\ UNCHANGED response
    /\ UNCHANGED <<payload, dataTracks, dataLimit, raisedAt, fault, calls,
                   lastCall, tracks, model, seeds, printed>>
    /\ UNCHANGED fnVars

\* if len(recommendedSongs) > limit: recommendedSongs = recommendedSongs[:limit]
CapList(recs, limit) == IF Len(recs) > limit THEN PySlicePrefix(recs, limit) ELSE recs

Cap ==
    /\ pc = "cap"
    /\ recommendedSongs' = CapList(recommendedSongs, dataLimit)
    /\ pc' = "print"
    /\ UNCHANGED response
    /\ UNCHANGED <<payload, dataTracks, dataLimit, raisedAt, fault, calls,
                   lastCall, tracks, model, seeds, printed>>
    /\ UNCHANGED fnVars

\* print(json.dumps({"tracks": ...}))
PrintPlaylist ==
    /\ pc = "print"
    /\ printed' = Some(recommendedSongs)
    /\ pc' = "done"
    /\ UNCHANGED <<payload, dataTracks, dataLimit, raisedAt, fault, calls,
                   lastCall, tracks, model, seeds, response, recommendedSongs>>
    /\ UNCHANGED fnVars

Next ==
    \/ Main
    \/ GetAuthtoken
    \/ CallRun
    \/ SearchTrack
    \/ DropUnresolved
    \/ GetAudioFeatures
    \/ GenAverageModel
    \/ GetBestSeeds
    \/ GetModelRecommendations
    \/ RemoveDuplicates
    \/ Cap
    \/ PrintPlaylist

Spec == Init /\ [][Next]_vars

\* ------------------------------------------------- the helpers on their own
\* Track number i of a helper's input list, enriched with record f.
EnrichedTrack(i, f) == [Track(i) EXCEPT !.audio_features = Some(AudioFeatures(f))]

EnrichedLists ==
    UNION {{[i \in 1..k |-> EnrichedTrack(i, fs[i])] : fs \in [1..k -> FeatureRecords(1)]} :
            k \in 1..MaxFnTracks}

InitAverage ==
    /\ PipeIdle
    /\ fnTracks \in EnrichedLists
    /\ fnModel = None
    /\ fnLimit = 0
    /\ fnSeeds = <<>>
    /\ fnPc = "start"

Average ==
    /\ fnPc = "start"
    /\ fnModel' = Some(genAverageModel(fnTracks))
    /\ fnPc' = "averaged"
    /\ UNCHANGED <<fnTracks, fnLimit, fnSeeds>>
    /\ UNCHANGED pipeVars

SpecAverage == InitAverage /\ [][Average]_vars

InitSeeds ==
    /\ PipeIdle
    /\ fnTracks \in EnrichedLists
    /\ fnModel \in {Some(AudioFeatures(f).model) : f \in FeatureRecords(1)}
    /\ fnLimit \in 0..MaxSeedLimit
    /\ fnSeeds = <<>>
    /\ fnPc = "start"

SelectSeeds ==
    /\ fnPc = "start"
    /\ fnSeeds' \in getBestSeedsIdx(fnTracks, Val(fnModel), fnLimit)
    /\ fnPc' = "selected"
    /\ UNCHANGED <<fnTracks, fnModel, fnLimit>>
    /\ UNCHANGED pipeVars

SpecSeeds == InitSeeds /\ [][SelectSeeds]_vars

\* ------------------------------------------------------------------ claims
Returned == pc \in {"print", "done"}

\* C1 (as claimed): whenever run returns, for any integer limit, the
\* returned list is no longer than limit.
C1_Cap == Returned => Len(recommendedSongs) <= dataLimit

\* C2: whenever run returns, no id of the returned list is the id of a
\* track of the enriched input list.
C2_Deduplication ==
    pc \in {"cap", "print", "done"} =>
        \A i \in 1..Len(recommendedSongs) : recommendedSongs[i] \notin InputIds(tracks)

\* A run returned after the service recommended one of the input tracks
\* together with a track that is none of them.
C2_Witness ==
    /\ pc = "done"
    /\ \E i \in 1..Len(response) : response[i] \in InputIds(tracks)
    /\ recommendedSongs # <<>>

Count(op) == Cardinality({i \in 1..Len(calls) : calls[i].op = op})

CallRank(op) ==
    CASE op = "token" -> 0
      [] op = "search" -> 1
      [] op = "features" -> 2
      [] op = "recommendations" -> 3

StageRank(stage) ==
    CASE stage \in {"idle", "main"} -> 0
      [] stage = "auth" -> 1
      [] stage = "callRun" -> 2
      [] stage = "resolve" -> 3
      [] stage = "enrich" -> 4
      [] stage = "model" -> 5
      [] stage = "seed" -> 6
      [] stage = "recommend" -> 7
      [] stage = "dedup" -> 8
      [] stage = "cap" -> 9
      [] stage = "print" -> 10
      [] stage = "done" -> 11
      [] stage = "aborted" -> 12

C3_CallOrder ==
    /\ \A i, j \in 1..Len(calls) : i < j => CallRank(calls[i].op) <= CallRank(calls[j].op)
    /\ Count("features") <= 1
    /\ Count("recommendations") <= 1
    /\ \A i, j \in 1..Len(calls) :
          (i # j /\ calls[i].op = "search" /\ calls[j].op = "search")
              => calls[i].arg # calls[j].arg
    /\ Count("features") = 1 =>
          {calls[i].arg : i \in {j \in 1..Len(calls) : calls[j].op = "search"}}
              = 1..dataTracks

C3_StageStep ==
    \/ pc' = pc
    \/ pc' = "aborted" /\ pc \notin {"done", "aborted"}
    \/ StageRank(pc') = StageRank(pc) + 1

\* C3: the remote calls are issued in the order searches, audio features,
\* recommendations; audio features and recommendations are requested at
\* most once; no identity is searched twice and all have been searched
\* once when audio features are requested; the stages are entered one
\* after the other, each from its predecessor, and none is entered again.
C3_PipelineOrdering == []C3_CallOrder /\ [][C3_StageStep]_vars

\* A run of two identities went through every stage.
C3_Witness == pc = "done" /\ dataTracks >= 2 /\ Len(calls) = dataTracks + 3

\* C4 (as claimed): once a call has failed or answered with a malformed
\* response, the run has ended in that very stage and nothing is printed;
\* a search without a match never ends the run.
C4_ErrorPropagation ==
    /\ fault # "none" => (pc = "aborted" /\ raisedAt = fault /\ printed = None)
    /\ raisedAt = "resolve" => fault = "resolve"

\* C5 (as claimed): with a malformed payload no remote call is ever issued.
C5_InputErrorFirst == payload # "ok" => calls = <<>>

\* C6 (as claimed): the delay follows every remote call whose response did
\* not come from the cache, and only those.
C6_Backoff == lastCall.op # "none" => (lastCall.slept <=> ~lastCall.from_cache)

\* C9 (as claimed): the returned list is the first min(limit, k) tracks of
\* the recommendations that carry no input id, k being their number.
C9_EndToEnd ==
    Returned =>
        LET fresh == SelectSeq(response, LAMBDA id : id \notin InputIds(tracks))
        IN recommendedSongs = SubSeq(fresh, 1, Min(dataLimit, Len(fresh)))

\* C10 (as claimed): audio features are requested only for a list of ids
\* that is not empty and holds no id twice.
C10_EnrichPrecondition ==
    Count("features") >= 1 =>
        /\ tracks # <<>>
        /\ \A i, j \in 1..Len(tracks) : i # j => tracks[i].id # tracks[j].id

FeatureOf(track, d) == Val(Val(track.audio_features).model[d])

RECURSIVE NamedSum(_, _)
NamedSum(ts, d) == IF ts = <<>> THEN 0 ELSE FeatureOf(Head(ts), d) + NamedSum(Tail(ts), d)

Reordered(ts, p) == [i \in 1..Len(ts) |-> ts[p[i]]]

\* The part of C7 that does not depend on how ties are ordered: the seeds
\* are min(limit, n) distinct input tracks in non-decreasing distance, and no
\* track left out is nearer to the target than a seed.
C7_SortedPrefix ==
    fnPc = "selected" =>
        LET n == Len(fnTracks)
            dist(i) == Dist2(fnTracks[i], Val(fnModel))
        IN /\ Len(fnSeeds) = Min(fnLimit, n)
           /\ \A i \in 1..Len(fnSeeds) : fnSeeds[i] \in 1..n
           /\ \A i, j \in 1..Len(fnSeeds) : i # j => fnSeeds[i] # fnSeeds[j]
           /\ \A i \in 1..(Len(fnSeeds) - 1) : dist(fnSeeds[i]) <= dist(fnSeeds[i + 1])
           /\ \A u \in (1..n) \ Range(fnSeeds) :
                 \A i \in 1..Len(fnSeeds) : dist(u) >= dist(fnSeeds[i])

\* C7 (as claimed): getBestSeeds returns min(limit, n) distinct input tracks
\* in non-decreasing distance to the target, none left out being nearer
\* than a seed, and tracks at equal distance are selected and listed in
\* their input order.
C7_SeedSelection ==
    /\ C7_SortedPrefix
    /\ fnPc = "selected" =>
          fnSeeds = SubSeq(StableArgSort(fnTracks, Val(fnModel)), 1,
                           Min(fnLimit, Len(fnTracks)))

CapForNonNegativeLimit == dataLimit >= 0 => (C1_Cap /\ C9_EndToEnd)

\* A failure that makes the code raise (token, search, recommendations, an
\* audio-features body without its key or with a null record among the
\* zipped ones) ends the run where it is received, and nothing is printed;
\* an audio-features list of the wrong length ends it in the Model or Seed
\* stage, or not at all.
RaisingFailuresAbort ==
    /\ fault \notin {"none", "enrich"} =>
          (pc = "aborted" /\ raisedAt = fault /\ printed = None)
    /\ fault = "enrich" => raisedAt \in {"none", "enrich", "model", "seed"}
    /\ raisedAt = "resolve" => fault = "resolve"
    /\ pc = "aborted" => printed = None

\* Every malformed payload but the one without "limit" fails before any call.
InputErrorFirstExceptLimit == payload \notin {"ok", "noLimit"} => calls = <<>>

\* The calls made through the cached session sleep exactly when the
\* response did not come from the cache.
BackoffForSessionCalls == lastCall.op \notin {"none", "token"} => C6_Backoff

====
